---- MODULE Spec2Model ----
(***************************************************************************)
(* procwrapper.c: a fixed table of child-process slots guarded by one      *)
(* mutex.  Every critical section (lock ... unlock) of the source is one   *)
(* atomic step; every system call made outside the lock (pipe/fork, read,  *)
(* waitpid, kill) is a step of its own, so that other threads and the      *)
(* children interleave exactly where the source lets them.                 *)
(***************************************************************************)
EXTENDS Integers, Sequences, FiniteSets

(* ------------------------------ bounds -------------------------------- *)
\* #define MAX_PROCS 64, scaled down
MAX_PROCS == 2
\* caller threads
NThreads == 2
\* bytes the child of the draining scenario writes
DrainBytes == 2
\* children the operating system lets the process fork (afterwards fork fails)
MaxChildren == 2
\* bytes the children write in total
MaxBytes == 1
\* iterations of the grace loop of stop_process (10 in the source), scaled down
GraceIters == 2

(* ------------------------- program constants -------------------------- *)
SIGTERM == 15
SIGKILL == 9
\* exit_code: "running / not set"
RUNNING == -2
\* descriptor sentinel "closed"
CLOSED_FD == -1

Handles == 0 .. (MAX_PROCS - 1)
HandleInputs == -1 .. MAX_PROCS
Threads == 1 .. NThreads
Pids == 1 .. MaxChildren
Streams == {"out", "err"}
ExitStatuses == {0, 3}
BufLens == {0, 1, 2}
\* descriptors 0..2 are the host's own; the read ends of child p's pipes are the
\* descriptors 2p+1 and 2p+2 (a descriptor number is not handed out twice)
MaxFd == 2 * MaxChildren + 2
Fds == 0 .. MaxFd

VARIABLES
    procs,     \* the registry: procs[i] = [used, pid, stdout_fd, stderr_fd, exit_code]
    th,        \* per caller thread: the operation it is in, its position and locals
    child,     \* operating system: each child's life and termination status
    pipebuf,   \* operating system: bytes buffered in each child's pipes
    nwritten,  \* number of bytes the children have written so far
    fdtab,     \* operating system: the process's descriptor table
    nextpid,   \* operating system: the pid the next fork returns
    stopped,   \* history: the children that were running when a stop_process call
               \* signalled them, once that call has returned
    drv,       \* the scripted caller of the scenario specifications (inert under Spec)
    mutex      \* procs_mutex: the thread that holds it and the critical section it
               \* entered (visible only where locking is a step of its own, SpecLock)

vars == <<procs, th, child, pipebuf, nwritten, fdtab, nextpid, stopped, drv, mutex>>

(* ------------------------------ statuses ------------------------------ *)
NoStatus == [kind |-> "none", val |-> 0]
Exited(c) == [kind |-> "exit", val |-> c]
Signaled(s) == [kind |-> "sig", val |-> s]
WIFEXITED(status) == status.kind = "exit"
WEXITSTATUS(status) == status.val
WIFSIGNALED(status) == status.kind = "sig"
WTERMSIG(status) == status.val

(* --------------------------- descriptor table ------------------------- *)
FdClosed == [k |-> "closed", p |-> 0, s |-> "-"]
FdHost == [k |-> "host", p |-> 0, s |-> "-"]
FdPipe(p, s) == [k |-> "pipe", p |-> p, s |-> s]

\* the read ends pipe() hands out for the child that fork() will name pid
OutFd(pid) == 2 * pid + 1
ErrFd(pid) == 2 * pid + 2

\* close(fd): closing a descriptor that is not open fails with EBADF and changes nothing
CloseFd(tab, fd) == IF fd \in Fds THEN [tab EXCEPT ![fd] = FdClosed] ELSE tab

(* ------------------------------ threads ------------------------------- *)
\* sig, live and term are history of a stop_process call: the pid it signalled,
\* whether that child was running then, and the status with which the call's own
\* waits collected it
Idle == [op |-> "none", pc |-> "idle", handle |-> -1, buflen |-> 0,
         idx |-> -1, pid |-> 0, fd |-> -1, fd2 |-> -1, r |-> 0,
         status |-> NoStatus, i |-> 0, ret |-> 0, data |-> <<>>,
         sig |-> 0, live |-> FALSE, term |-> NoStatus]

\* the call is over: its locals are dead, its result is v
Returning(l, v) == [Idle EXCEPT !.op = l.op, !.handle = l.handle, !.pc = "ret", !.ret = v]

\* the same for a stop_process call that signalled l.sig (its history is kept)
StopReturning(l, v) == [Returning(l, v) EXCEPT !.sig = l.sig, !.live = l.live, !.term = l.term]

EmptyEntry == [used |-> FALSE, pid |-> 0, stdout_fd |-> 0, stderr_fd |-> 0, exit_code |-> 0]

DrvOff == [phase |-> "off", handle |-> -1, stream |-> "-", sawExit |-> FALSE,
           zeros |-> 0, received |-> <<>>, a |-> 0, e1 |-> 0, b |-> 0, e2 |-> 0]

\* PTHREAD_MUTEX_INITIALIZER: nobody holds the mutex
MutexFree == [owner |-> 0, at |-> "-"]

\* static proc_entry procs[MAX_PROCS]: zero-initialised storage; no child yet
InitSystem ==
    /\ procs = [i \in Handles |-> EmptyEntry]
    /\ th = [t \in Threads |-> Idle]
    /\ child = [p \in Pids |-> [life |-> "none", status |-> NoStatus]]
    /\ pipebuf = [p \in Pids |-> [s \in Streams |-> <<>>]]
    /\ nwritten = 0
    /\ fdtab = [f \in Fds |-> IF f <= 2 THEN FdHost ELSE FdClosed]
    /\ nextpid = 1
    /\ stopped = {}
    /\ mutex = MutexFree

Init == InitSystem /\ drv = DrvOff

OSUnchanged == UNCHANGED <<child, pipebuf, nwritten, fdtab, nextpid>>

\* a call is made: the thread enters the operation with the locals l
Invoke(t, l) ==
    /\ th[t].pc = "idle"
    /\ th' = [th EXCEPT ![t] = l]
    /\ UNCHANGED <<procs, stopped>>
    /\ OSUnchanged

(* --------------------------- start_process ---------------------------- *)
\* mutant: the scan runs from the top of the table
FindFreeSlotFromTop(p) ==
    IF \E i \in Handles : ~p[i].used
    THEN CHOOSE i \in Handles : ~p[i].used /\ \A j \in Handles : ~p[j].used => j <= i
    ELSE -1

\* the scan of lines 73-76: the lowest index whose slot is not used, or -1
FindFreeSlot(p) ==
    IF \E i \in Handles : ~p[i].used
    THEN CHOOSE i \in Handles : ~p[i].used /\ \A j \in Handles : ~p[j].used => i <= j
    ELSE -1

\* start_process(path, argv) is called; a null path or argv is rejected at once
StartEntry(nullArgs) ==
    IF nullArgs THEN Returning([Idle EXCEPT !.op = "start"], -1)
    ELSE [Idle EXCEPT !.op = "start", !.pc = "scan"]

CallStart(t, nullArgs) == Invoke(t, StartEntry(nullArgs)) /\ UNCHANGED <<drv, mutex>>

\* lines 72-78: under the mutex, pick the slot; nothing is written to it here
StartScan(t) ==
    /\ th[t].pc = "scan"
    /\ LET idx == FindFreeSlot(procs)
       IN th' = [th EXCEPT ![t] =
                    IF idx = -1 THEN Returning(@, -1)
                    ELSE [@ EXCEPT !.pc = "spawn", !.idx = idx]]
    /\ UNCHANGED <<procs, stopped, drv, mutex>>
    /\ OSUnchanged

\* lines 80-90: pipe or fork fails; whatever was created is closed again
StartSpawnFail(t) ==
    /\ th[t].pc = "spawn"
    /\ th' = [th EXCEPT ![t] = Returning(@, -1)]
    /\ UNCHANGED <<procs, stopped, drv, mutex>>
    /\ OSUnchanged

\* lines 80-117: two pipes, fork, the parent closes the write ends
StartSpawn(t) ==
    /\ th[t].pc = "spawn"
    /\ nextpid <= MaxChildren
    /\ LET pid == nextpid
       IN /\ fdtab' = [fdtab EXCEPT ![OutFd(pid)] = FdPipe(pid, "out"),
                                    ![ErrFd(pid)] = FdPipe(pid, "err")]
          /\ th' = [th EXCEPT ![t] = [@ EXCEPT !.pc = "register", !.pid = pid,
                                                 !.fd = OutFd(pid), !.fd2 = ErrFd(pid)]]
          /\ child' = [child EXCEPT ![pid] = [life |-> "run", status |-> NoStatus]]
          /\ nextpid' = nextpid + 1
    /\ UNCHANGED <<procs, pipebuf, nwritten, stopped, drv, mutex>>

\* lines 120-124: the fields written at registration
RegisterEntry(pid, outfd, errfd) ==
    [used |-> TRUE, pid |-> pid, stdout_fd |-> outfd, stderr_fd |-> errfd,
     exit_code |-> RUNNING]

\* lines 119-127
StartRegister(t) ==
    /\ th[t].pc = "register"
    /\ procs' = [procs EXCEPT ![th[t].idx] = RegisterEntry(th[t].pid, th[t].fd, th[t].fd2)]
    /\ th' = [th EXCEPT ![t] = Returning(@, th[t].idx)]
    /\ UNCHANGED <<stopped, drv, mutex>>
    /\ OSUnchanged

(* ---------------------- read_stdout / read_stderr --------------------- *)
StreamOf(op) == IF op = "read_stdout" THEN "out" ELSE "err"
FdOf(e, s) == IF s = "out" THEN e.stdout_fd ELSE e.stderr_fd
WithFd(e, s, fd) == IF s = "out" THEN [e EXCEPT !.stdout_fd = fd] ELSE [e EXCEPT !.stderr_fd = fd]

\* mutant: the slot is freed as soon as both descriptors are closed
clear_without_exit_check(e) ==
    IF e.used /\ e.stdout_fd < 0 /\ e.stderr_fd < 0 THEN [e EXCEPT !.used = FALSE] ELSE e

\* mutant: freeing the slot also resets its exit_code to "running / not set"
clear_and_reset(e) ==
    IF e.used /\ e.stdout_fd < 0 /\ e.stderr_fd < 0 /\ e.exit_code >= 0
    THEN [e EXCEPT !.used = FALSE, !.exit_code = RUNNING]
    ELSE e

\* lines 130-137, called with the mutex held: the entry after the call
maybe_clear_slot_after_eof(e) ==
    IF ~e.used THEN e
    ELSE IF e.stdout_fd < 0 /\ e.stderr_fd < 0 /\ e.exit_code >= 0
         THEN [e EXCEPT !.used = FALSE]
         ELSE e

\* lines 141-142 / 170-171: a non-positive length or a handle out of range is rejected
ReadEntry(op, handle, buflen) ==
    IF buflen <= 0 \/ handle < 0 \/ handle >= MAX_PROCS
    THEN Returning([Idle EXCEPT !.op = op, !.handle = handle], -1)
    ELSE [Idle EXCEPT !.op = op, !.handle = handle, !.buflen = buflen, !.pc = "snap"]

CallRead(t, op, handle, buflen) == Invoke(t, ReadEntry(op, handle, buflen)) /\ UNCHANGED <<drv, mutex>>

\* lines 144-147 / 173-176: snapshot the descriptor under the mutex
ReadSnap(t) ==
    /\ th[t].pc = "snap"
    /\ LET fd == FdOf(procs[th[t].handle], StreamOf(th[t].op))
       IN th' = [th EXCEPT ![t] =
                    IF fd < 0 THEN Returning(@, 0)
                    ELSE [@ EXCEPT !.pc = "read", !.fd = fd]]
    /\ UNCHANGED <<procs, stopped, drv, mutex>>
    /\ OSUnchanged

\* what read(fd, buffer, buflen) on a pipe delivers: the first bytes buffered
ReadBytes(buf, buflen) == SubSeq(buf, 1, IF Len(buf) < buflen THEN Len(buf) ELSE buflen)
ReadRest(buf, buflen) == SubSeq(buf, (IF Len(buf) < buflen THEN Len(buf) ELSE buflen) + 1, Len(buf))

\* line 149 / 178 on a pipe: n > 0 (bytes), n < 0 with EAGAIN (empty, the child
\* still holds the write end), or n = 0 (empty and no writer left)
ReadSys(t) ==
    /\ th[t].pc = "read"
    /\ fdtab[th[t].fd].k = "pipe"
    /\ LET p == fdtab[th[t].fd].p
           s == fdtab[th[t].fd].s
           buf == pipebuf[p][s]
       IN IF Len(buf) > 0
          THEN /\ th' = [th EXCEPT ![t] =
                            [Returning(@, Len(ReadBytes(buf, th[t].buflen)))
                                EXCEPT !.data = ReadBytes(buf, th[t].buflen)]]
               /\ pipebuf' = [pipebuf EXCEPT ![p][s] = ReadRest(buf, th[t].buflen)]
          ELSE /\ th' = [th EXCEPT ![t] =
                            IF child[p].life = "run" THEN Returning(@, 0)
                            ELSE [@ EXCEPT !.pc = "eof"]]
               /\ UNCHANGED pipebuf
    /\ UNCHANGED <<procs, child, nwritten, fdtab, nextpid, stopped, drv, mutex>>

\* line 149 / 178 on a descriptor that is no longer open: EBADF, lines 161-163
ReadSysBadFd(t) ==
    /\ th[t].pc = "read"
    /\ fdtab[th[t].fd].k = "closed"
    /\ th' = [th EXCEPT ![t] = Returning(@, -1)]
    /\ UNCHANGED <<procs, stopped, drv, mutex>>
    /\ OSUnchanged

\* line 149 / 178 on one of the host's own descriptors (0 is standard input, a
\* blocking descriptor taken to be open and not at end of file): the read delivers
\* a byte of the host's input, or blocks until there is one
ReadSysHost(t) ==
    /\ th[t].pc = "read"
    /\ fdtab[th[t].fd].k = "host"
    /\ th' = [th EXCEPT ![t] = [Returning(@, 1) EXCEPT !.data = <<0>>]]
    /\ UNCHANGED <<procs, stopped, drv, mutex>>
    /\ OSUnchanged

\* mutant: the descriptor is closed but the slot goes on recording it
ReadEofKeepsFd(t) ==
    /\ th[t].pc = "eof"
    /\ fdtab' = CloseFd(fdtab, FdOf(procs[th[t].handle], StreamOf(th[t].op)))
    /\ th' = [th EXCEPT ![t] = Returning(@, 0)]
    /\ UNCHANGED <<procs, child, pipebuf, nwritten, nextpid, stopped, drv, mutex>>

\* lines 152-159 / 181-188: on EOF, under the mutex, close the recorded descriptor
\* if one is still recorded, mark it closed and possibly free the slot
ReadEof(t) ==
    /\ th[t].pc = "eof"
    /\ LET h == th[t].handle
           s == StreamOf(th[t].op)
           e == procs[h]
       IN IF FdOf(e, s) >= 0
          THEN /\ fdtab' = CloseFd(fdtab, FdOf(e, s))
               /\ procs' = [procs EXCEPT ![h] = maybe_clear_slot_after_eof(WithFd(e, s, CLOSED_FD))]
          ELSE UNCHANGED <<fdtab, procs>>
    /\ th' = [th EXCEPT ![t] = Returning(@, 0)]
    /\ UNCHANGED <<child, pipebuf, nwritten, nextpid, stopped, drv, mutex>>

(* --------------------------- reap_if_finished ------------------------- *)
\* line 39: the fast check
ReapFastSkip(e) == ~e.used \/ e.exit_code # RUNNING

\* line 51: the re-check after waitpid
ReapRecheckSkip(e) == ~e.used \/ e.exit_code # RUNNING

\* mutant: a signalled child is recorded with the bare signal number
ReapExitCodeBareSignal(old, r, pid, status) ==
    IF r = pid
    THEN IF WIFEXITED(status) THEN WEXITSTATUS(status)
         ELSE IF WIFSIGNALED(status) THEN WTERMSIG(status)
         ELSE -1
    ELSE IF r = -1 THEN -1
    ELSE old

\* lines 56-63: the exit_code recorded for the result r of waitpid(pid, &status, WNOHANG)
ReapExitCode(old, r, pid, status) ==
    IF r = pid
    THEN IF WIFEXITED(status) THEN WEXITSTATUS(status)
         ELSE IF WIFSIGNALED(status) THEN 128 + WTERMSIG(status)
         ELSE -1
    ELSE IF r = -1 THEN -1
    ELSE old

\* mutant: the reaper also closes the descriptors and frees the slot once it has
\* recorded the exit
ReapCommitClosing(e, r, pid, status) ==
    IF ReapRecheckSkip(e) THEN e
    ELSE IF ReapExitCode(e.exit_code, r, pid, status) = RUNNING THEN e
    ELSE [e EXCEPT !.exit_code = ReapExitCode(e.exit_code, r, pid, status),
                   !.stdout_fd = CLOSED_FD, !.stderr_fd = CLOSED_FD, !.used = FALSE]

\* lines 49-64: the entry after the commit
ReapCommitEntry(e, r, pid, status) ==
    IF ReapRecheckSkip(e) THEN e
    ELSE [e EXCEPT !.exit_code = ReapExitCode(e.exit_code, r, pid, status)]

\* waitpid(pid, &status, WNOHANG): pid for a terminated, uncollected child (which it
\* collects), 0 for a live one, -1 (ECHILD) when the pid is no child any more
WaitR(pid) ==
    IF pid \in Pids /\ child[pid].life = "zombie" THEN pid
    ELSE IF pid \in Pids /\ child[pid].life = "run" THEN 0
    ELSE -1

\* a collected child leaves the process table; its status went to the collector
Collected(pid) ==
    IF pid \in Pids /\ child[pid].life = "zombie"
    THEN [child EXCEPT ![pid] = [life |-> "gone", status |-> NoStatus]]
    ELSE child

WaitStatus(pid) == IF WaitR(pid) = pid THEN child[pid].status ELSE NoStatus

\* where reap_if_finished returns to: is_running line 202, get_exit_code line 213,
\* stop_process line 251
AfterReap(l) ==
    IF l.op = "stop" THEN StopReturning(l, 0)
    ELSE [Idle EXCEPT !.op = l.op, !.handle = l.handle, !.pc = "obs"]

\* lines 38-44
ReapCheck(t) ==
    /\ th[t].pc = "reap_check"
    /\ th' = [th EXCEPT ![t] =
                IF ReapFastSkip(procs[th[t].handle]) THEN AfterReap(@)
                ELSE [@ EXCEPT !.pc = "reap_wait", !.pid = procs[th[t].handle].pid]]
    /\ UNCHANGED <<procs, stopped, drv, mutex>>
    /\ OSUnchanged

\* lines 46-47
ReapWait(t) ==
    /\ th[t].pc = "reap_wait"
    /\ th' = [th EXCEPT ![t] = [@ EXCEPT !.pc = "reap_commit", !.r = WaitR(th[t].pid),
                                             !.status = WaitStatus(th[t].pid)]]
    /\ child' = Collected(th[t].pid)
    /\ UNCHANGED <<procs, pipebuf, nwritten, fdtab, nextpid, stopped, drv, mutex>>

\* lines 49-64
ReapCommit(t) ==
    /\ th[t].pc = "reap_commit"
    /\ procs' = [procs EXCEPT ![th[t].handle] =
                    ReapCommitEntry(@, th[t].r, th[t].pid, th[t].status)]
    /\ th' = [th EXCEPT ![t] = AfterReap(@)]
    /\ UNCHANGED <<stopped, drv, mutex>>
    /\ OSUnchanged

(* ----------------------- is_running / get_exit_code ------------------- *)
\* lines 200 / 211: a handle out of range gives 0 / -1
ObsEntry(op, handle) ==
    IF handle < 0 \/ handle >= MAX_PROCS
    THEN Returning([Idle EXCEPT !.op = op, !.handle = handle],
                   IF op = "is_running" THEN 0 ELSE -1)
    ELSE [Idle EXCEPT !.op = op, !.handle = handle, !.pc = "reap_check"]

CallObs(t, op, handle) == Invoke(t, ObsEntry(op, handle)) /\ UNCHANGED <<drv, mutex>>

\* lines 202-205 / 213-216
ObsValue(op, e) ==
    IF op = "is_running" THEN (IF e.used /\ e.exit_code = RUNNING THEN 1 ELSE 0)
    ELSE e.exit_code

Obs(t) ==
    /\ th[t].pc = "obs"
    /\ th' = [th EXCEPT ![t] = Returning(@, ObsValue(th[t].op, procs[th[t].handle]))]
    /\ UNCHANGED <<procs, stopped, drv, mutex>>
    /\ OSUnchanged

(* ----------------------------- stop_process --------------------------- *)
\* mutant: a handle out of range is reported as "already not running"
StopEntryReturnsZero(handle) ==
    IF handle < 0 \/ handle >= MAX_PROCS
    THEN Returning([Idle EXCEPT !.op = "stop", !.handle = handle], 0)
    ELSE [Idle EXCEPT !.op = "stop", !.handle = handle, !.pc = "stop_check"]

\* line 222
StopEntry(handle) ==
    IF handle < 0 \/ handle >= MAX_PROCS
    THEN Returning([Idle EXCEPT !.op = "stop", !.handle = handle], -1)
    ELSE [Idle EXCEPT !.op = "stop", !.handle = handle, !.pc = "stop_check"]

CallStop(t, handle) == Invoke(t, StopEntry(handle)) /\ UNCHANGED <<drv, mutex>>

\* line 225: "already not running"
StopAlreadyDone(e) == ~e.used /\ e.exit_code # RUNNING

\* lines 224-230
StopCheck(t) ==
    /\ th[t].pc = "stop_check"
    /\ th' = [th EXCEPT ![t] =
                IF StopAlreadyDone(procs[th[t].handle]) THEN Returning(@, 0)
                ELSE [@ EXCEPT !.pc = "stop_term", !.pid = procs[th[t].handle].pid]]
    /\ UNCHANGED <<procs, stopped, drv, mutex>>
    /\ OSUnchanged

\* kill(pid, sig) succeeds while the pid names a process, a zombie included
KillOk(pid) == pid \in Pids /\ child[pid].life \in {"run", "zombie"}

\* mutant: a failed kill is reported as an error
StopNoSuchProcessError(l) == Returning(l, -1)

\* line 233: kill(pid, SIGTERM) has failed with ESRCH, "return 0"
StopNoSuchProcess(l) == Returning(l, 0)

\* lines 232-234, kill(pid, SIGTERM) fails with ESRCH: no such process
StopTermGone(t) ==
    /\ th[t].pc = "stop_term"
    /\ ~KillOk(th[t].pid)
    /\ th' = [th EXCEPT ![t] = StopNoSuchProcess(@)]
    /\ UNCHANGED <<procs, stopped, drv, mutex>>
    /\ OSUnchanged

\* line 232, kill(pid, SIGTERM) delivered.  A running child with the default
\* disposition dies of the signal (dies = TRUE); one that traps or ignores it
\* goes on running and may exit later by itself.  A zombie is unaffected.
StopTerm(t, dies) ==
    /\ th[t].pc = "stop_term"
    /\ KillOk(th[t].pid)
    /\ dies => child[th[t].pid].life = "run"
    /\ child' = IF dies
                THEN [child EXCEPT ![th[t].pid] = [life |-> "zombie", status |-> Signaled(SIGTERM)]]
                ELSE child
    /\ th' = [th EXCEPT ![t] = [@ EXCEPT !.pc = "stop_poll", !.i = 0, !.sig = th[t].pid,
                                         !.live = (child[th[t].pid].life = "run")]]
    /\ UNCHANGED <<procs, pipebuf, nwritten, fdtab, nextpid, stopped, drv, mutex>>

\* lines 237-242: one iteration of the grace loop; the wait collects a terminated
\* child and its status is not used
StopPoll(t) ==
    /\ th[t].pc = "stop_poll"
    /\ th[t].i < GraceIters
    /\ th' = [th EXCEPT ![t] =
                IF WaitR(th[t].pid) = th[t].pid
                THEN [@ EXCEPT !.pc = "stop_alive", !.i = 0, !.term = WaitStatus(th[t].pid)]
                ELSE IF th[t].i + 1 < GraceIters THEN [@ EXCEPT !.i = @ + 1]
                ELSE [@ EXCEPT !.pc = "stop_alive", !.i = 0]]
    /\ child' = Collected(th[t].pid)
    /\ UNCHANGED <<procs, pipebuf, nwritten, fdtab, nextpid, stopped, drv, mutex>>

\* mutant: no escalation to SIGKILL after the grace loop
StopAliveNoKill(t) ==
    /\ th[t].pc = "stop_alive"
    /\ th' = [th EXCEPT ![t] = [@ EXCEPT !.pc = "reap_check", !.pid = 0]]
    /\ UNCHANGED <<procs, stopped, drv, mutex>>
    /\ OSUnchanged

\* lines 244-245: kill(pid, 0) probes the pid; if it still exists, SIGKILL
StopAlive(t) ==
    /\ th[t].pc = "stop_alive"
    /\ IF KillOk(th[t].pid)
       THEN /\ child' = IF child[th[t].pid].life = "run"
                        THEN [child EXCEPT ![th[t].pid] =
                                 [life |-> "zombie", status |-> Signaled(SIGKILL)]]
                        ELSE child
            /\ th' = [th EXCEPT ![t] = [@ EXCEPT !.pc = "stop_kwait"]]
       ELSE /\ th' = [th EXCEPT ![t] = [@ EXCEPT !.pc = "reap_check", !.pid = 0]]
            /\ UNCHANGED child
    /\ UNCHANGED <<procs, pipebuf, nwritten, fdtab, nextpid, stopped, drv, mutex>>

\* line 246: waitpid(pid, NULL, 0) blocks until the child has terminated, collects
\* it and drops the status; it fails at once (ECHILD) if the child is gone
StopKillWait(t) ==
    /\ th[t].pc = "stop_kwait"
    /\ WaitR(th[t].pid) # 0
    /\ child' = Collected(th[t].pid)
    /\ th' = [th EXCEPT ![t] = [@ EXCEPT !.pc = "reap_check", !.pid = 0,
                                         !.term = IF WaitR(th[t].pid) = th[t].pid
                                                  THEN WaitStatus(th[t].pid) ELSE @]]
    /\ UNCHANGED <<procs, pipebuf, nwritten, fdtab, nextpid, stopped, drv, mutex>>

(* ------------------------------ children ------------------------------ *)
\* the child writes a byte to one of its streams, cap bytes at most being written
\* in all (the bytes are numbered 1, 2, ... so that each differs from the others)
ChildWrite(p, s, cap) ==
    /\ child[p].life = "run"
    /\ nwritten < cap
    /\ nwritten' = nwritten + 1
    /\ pipebuf' = [pipebuf EXCEPT ![p][s] = Append(@, nwritten + 1)]
    /\ UNCHANGED <<procs, th, child, fdtab, nextpid, stopped, drv, mutex>>

\* the child exits with status c (execv's program, or _exit after a failed execv);
\* its write ends close with it
ChildExit(p, c) ==
    /\ child[p].life = "run"
    /\ child' = [child EXCEPT ![p] = [life |-> "zombie", status |-> Exited(c)]]
    /\ UNCHANGED <<procs, th, pipebuf, nwritten, fdtab, nextpid, stopped, drv, mutex>>

\* the child is killed by a signal that does not come from this library
ChildKilled(p, sig) ==
    /\ child[p].life = "run"
    /\ child' = [child EXCEPT ![p] = [life |-> "zombie", status |-> Signaled(sig)]]
    /\ UNCHANGED <<procs, th, pipebuf, nwritten, fdtab, nextpid, stopped, drv, mutex>>

(* ------------------------------- callers ------------------------------ *)
\* the call returns th[t].ret to its caller
Finish(t) ==
    /\ th[t].pc = "ret"
    /\ th' = [th EXCEPT ![t] = Idle]
    /\ stopped' = IF th[t].op = "stop" /\ th[t].live THEN stopped \cup {th[t].sig}
                  ELSE stopped
    /\ UNCHANGED procs
    /\ OSUnchanged

Return(t) == Finish(t) /\ UNCHANGED <<drv, mutex>>

Readers == {"read_stdout", "read_stderr"}
Observers == {"is_running", "get_exit_code"}
Signals == {SIGKILL}
\* the one thread of the sequential callers
Caller == CHOOSE t \in Threads : \A u \in Threads : t <= u

(* Spec: one caller thread makes any call with any argument, one call after *)
(* the other; the children run, write, exit and die asynchronously.         *)
Next ==
    \/ \E nullArgs \in BOOLEAN : CallStart(Caller, nullArgs)
    \/ StartScan(Caller)
    \/ StartSpawnFail(Caller)
    \/ StartSpawn(Caller)
    \/ StartRegister(Caller)
    \/ \E op \in Readers, h \in HandleInputs, n \in BufLens : CallRead(Caller, op, h, n)
    \/ ReadSnap(Caller)
    \/ ReadSys(Caller)
    \/ ReadSysHost(Caller)
    \/ ReadEof(Caller)
    \/ \E op \in Observers, h \in HandleInputs : CallObs(Caller, op, h)
    \/ ReapCheck(Caller)
    \/ ReapWait(Caller)
    \/ ReapCommit(Caller)
    \/ Obs(Caller)
    \/ \E h \in HandleInputs : CallStop(Caller, h)
    \/ StopCheck(Caller)
    \/ StopTermGone(Caller)
    \/ \E dies \in BOOLEAN : StopTerm(Caller, dies)
    \/ StopPoll(Caller)
    \/ StopAlive(Caller)
    \/ StopKillWait(Caller)
    \/ \E p \in Pids, s \in Streams : ChildWrite(p, s, MaxBytes)
    \/ \E p \in Pids, c \in ExitStatuses : ChildExit(p, c)
    \/ \E p \in Pids, sig \in Signals : ChildKilled(p, sig)
    \/ Return(Caller)

Spec == Init /\ [][Next]_vars

\* the steps of a call between its entry and its return statement
CallSteps(t) ==
    \/ StartScan(t) \/ StartSpawnFail(t) \/ StartSpawn(t) \/ StartRegister(t)
    \/ ReadSnap(t) \/ ReadSys(t) \/ ReadSysHost(t) \/ ReadEof(t)
    \/ ReapCheck(t) \/ ReapWait(t) \/ ReapCommit(t) \/ Obs(t)
    \/ StopCheck(t) \/ StopTermGone(t) \/ (\E dies \in BOOLEAN : StopTerm(t, dies))
    \/ StopPoll(t) \/ StopAlive(t) \/ StopKillWait(t)

(* SpecFair: Spec with a scheduler that lets a thread inside a call go on. *)
SpecFair == Spec /\ WF_vars(CallSteps(Caller))

(* SpecConc: two caller threads make their calls concurrently, every call on  *)
(* the first handle (start_process takes whichever slot its scan finds); the   *)
(* children write nothing and exit with one status or are killed.              *)
ConcHandles == {0}
ConcStatuses == {3}

NextConc ==
    \/ \E t \in Threads : CallStart(t, FALSE)
    \/ \E t \in Threads : StartScan(t)
    \/ \E t \in Threads : StartSpawnFail(t)
    \/ \E t \in Threads : StartSpawn(t)
    \/ \E t \in Threads : StartRegister(t)
    \/ \E t \in Threads, op \in Readers, h \in ConcHandles : CallRead(t, op, h, 1)
    \/ \E t \in Threads : ReadSnap(t)
    \/ \E t \in Threads : ReadSys(t)
    \/ \E t \in Threads : ReadSysBadFd(t)
    \/ \E t \in Threads : ReadSysHost(t)
    \/ \E t \in Threads : ReadEof(t)
    \/ \E t \in Threads, op \in Observers, h \in ConcHandles : CallObs(t, op, h)
    \/ \E t \in Threads : ReapCheck(t)
    \/ \E t \in Threads : ReapWait(t)
    \/ \E t \in Threads : ReapCommit(t)
    \/ \E t \in Threads : Obs(t)
    \/ \E t \in Threads, h \in ConcHandles : CallStop(t, h)
    \/ \E t \in Threads : StopCheck(t)
    \/ \E t \in Threads : StopTermGone(t)
    \/ \E t \in Threads, dies \in BOOLEAN : StopTerm(t, dies)
    \/ \E t \in Threads : StopPoll(t)
    \/ \E t \in Threads : StopAlive(t)
    \/ \E t \in Threads : StopKillWait(t)
    \/ \E p \in Pids, c \in ConcStatuses : ChildExit(p, c)
    \/ \E t \in Threads : Return(t)

SpecConc == Init /\ [][NextConc]_vars


(* SpecLock: as SpecConc, but taking and releasing procs_mutex are steps of     *)
(* their own: a thread takes the mutex before a critical section, runs the      *)
(* section while holding it, and releases it where the source does.             *)
\* the positions at which the source locks: lines 72, 119, 144/173, 152/181,
\* 38, 49, 202/213, 224
LockPcs == {"scan", "register", "snap", "eof", "reap_check", "reap_commit", "obs",
            "stop_check"}

\* the positions at which the source makes a blocking or process-level call:
\* pipe/fork, read, waitpid (47), kill (232), waitpid and usleep (239-241),
\* kill (244-245), waitpid (246)
SyscallPcs == {"spawn", "read", "reap_wait", "stop_term", "stop_poll", "stop_alive",
               "stop_kwait"}

\* mutant: reap_if_finished does not unlock before its waitpid (line 44 missing)
UnlockedPathsNoLine44 ==
    {<<"scan", "spawn">>, <<"scan", "ret">>, <<"register", "ret">>,
     <<"snap", "read">>, <<"snap", "ret">>, <<"eof", "ret">>,
     <<"reap_check", "obs">>, <<"reap_check", "ret">>,
     <<"reap_commit", "obs">>, <<"reap_commit", "ret">>,
     <<"obs", "ret">>, <<"stop_check", "ret">>, <<"stop_check", "stop_term">>}

\* the ways out of the critical sections on which the source unlocks before it
\* goes on: <<section, position reached>>
UnlockedPaths ==
    {<<"scan", "spawn">>, <<"scan", "ret">>,                  \* line 77
     <<"register", "ret">>,                                    \* line 125
     <<"snap", "read">>, <<"snap", "ret">>,                    \* lines 146, 175
     <<"eof", "ret">>,                                         \* lines 158, 187
     <<"reap_check", "reap_wait">>,                            \* line 44
     <<"reap_check", "obs">>, <<"reap_check", "ret">>,         \* line 40
     <<"reap_commit", "obs">>, <<"reap_commit", "ret">>,       \* lines 52, 64
     <<"obs", "ret">>,                                         \* lines 204, 215
     <<"stop_check", "ret">>,                                  \* line 226
     <<"stop_check", "stop_term">>}                            \* line 230

\* t holds the mutex and is at the head of its critical section
Locked(t) == mutex.owner = t /\ mutex.at = th[t].pc

\* t holds the mutex, has run its critical section, and the source unlocks next
MustUnlock(t) ==
    /\ mutex.owner = t
    /\ mutex.at # th[t].pc
    /\ <<mutex.at, th[t].pc>> \in UnlockedPaths

\* pthread_mutex_lock(&procs_mutex)
MutexLock(t) ==
    /\ th[t].pc \in LockPcs
    /\ mutex = MutexFree
    /\ mutex' = [owner |-> t, at |-> th[t].pc]
    /\ UNCHANGED <<procs, th, stopped, drv>>
    /\ OSUnchanged

\* pthread_mutex_unlock(&procs_mutex)
MutexUnlock(t) ==
    /\ MustUnlock(t)
    /\ mutex' = MutexFree
    /\ UNCHANGED <<procs, th, stopped, drv>>
    /\ OSUnchanged

LockStatuses == {3}

NextLock ==
    \/ \E t \in Threads : MutexLock(t)
    \/ \E t \in Threads : MutexUnlock(t)
    \/ \E t \in Threads : ~MustUnlock(t) /\ CallStart(t, FALSE)
    \/ \E t \in Threads : Locked(t) /\ StartScan(t)
    \/ \E t \in Threads : ~MustUnlock(t) /\ StartSpawnFail(t)
    \/ \E t \in Threads : ~MustUnlock(t) /\ StartSpawn(t)
    \/ \E t \in Threads : Locked(t) /\ StartRegister(t)
    \/ \E t \in Threads, h \in ConcHandles :
          ~MustUnlock(t) /\ CallRead(t, "read_stdout", h, 1)
    \/ \E t \in Threads : Locked(t) /\ ReadSnap(t)
    \/ \E t \in Threads : ~MustUnlock(t) /\ ReadSys(t)
    \/ \E t \in Threads : ~MustUnlock(t) /\ ReadSysHost(t)
    \/ \E t \in Threads : Locked(t) /\ ReadEof(t)
    \/ \E t \in Threads, h \in ConcHandles :
          ~MustUnlock(t) /\ CallObs(t, "get_exit_code", h)
    \/ \E t \in Threads : Locked(t) /\ ReapCheck(t)
    \/ \E t \in Threads : ~MustUnlock(t) /\ ReapWait(t)
    \/ \E t \in Threads : Locked(t) /\ ReapCommit(t)
    \/ \E t \in Threads : Locked(t) /\ Obs(t)
    \/ \E t \in Threads, h \in ConcHandles : ~MustUnlock(t) /\ CallStop(t, h)
    \/ \E t \in Threads : Locked(t) /\ StopCheck(t)
    \/ \E t \in Threads : ~MustUnlock(t) /\ StopTermGone(t)
    \/ \E t \in Threads, dies \in BOOLEAN : ~MustUnlock(t) /\ StopTerm(t, dies)
    \/ \E t \in Threads : ~MustUnlock(t) /\ StopPoll(t)
    \/ \E t \in Threads : ~MustUnlock(t) /\ StopAlive(t)
    \/ \E t \in Threads : ~MustUnlock(t) /\ StopKillWait(t)
    \/ \E p \in Pids, c \in LockStatuses : ChildExit(p, c)
    \/ \E t \in Threads : ~MustUnlock(t) /\ Return(t)

SpecLock == Init /\ [][NextLock]_vars

(* ------------------------- scripted callers --------------------------- *)
\* a second thread, which only calls is_running and get_exit_code
Reaper == CHOOSE t \in Threads : t # Caller
ReaderOf(s) == IF s = "out" THEN "read_stdout" ELSE "read_stderr"
DrainBufLens == {1, 2}

(* SpecDrain: the caller starts one child, which writes to one stream and     *)
(* exits, and then polls that stream's reader, is_running and get_exit_code   *)
(* in any order until it has seen a non-running state and, after that, two    *)
(* consecutive reads returning 0.  A second thread reaps at any time.         *)
InitDrain ==
    /\ InitSystem
    /\ \E s \in Streams : drv = [DrvOff EXCEPT !.phase = "begin", !.stream = s]

DrainStart ==
    /\ drv.phase = "begin"
    /\ Invoke(Caller, StartEntry(FALSE))
    /\ drv' = [drv EXCEPT !.phase = "starting"]
    /\ UNCHANGED mutex

DrainStarted ==
    /\ drv.phase = "starting"
    /\ Finish(Caller)
    /\ drv' = IF th[Caller].ret >= 0
              THEN [drv EXCEPT !.phase = "loop", !.handle = th[Caller].ret]
              ELSE [drv EXCEPT !.phase = "failed"]
    /\ UNCHANGED mutex

DrainRead(n) ==
    /\ drv.phase = "loop"
    /\ Invoke(Caller, ReadEntry(ReaderOf(drv.stream), drv.handle, n))
    /\ UNCHANGED <<drv, mutex>>

DrainObserve(op) ==
    /\ drv.phase = "loop"
    /\ Invoke(Caller, ObsEntry(op, drv.handle))
    /\ UNCHANGED <<drv, mutex>>

\* what the consumer makes of a returned call
DrainAfter(d, l) ==
    IF l.op \in {"read_stdout", "read_stderr"}
    THEN IF l.ret > 0 THEN [d EXCEPT !.received = @ \o l.data, !.zeros = 0]
         ELSE IF l.ret < 0 THEN [d EXCEPT !.phase = "error"]
         ELSE IF ~d.sawExit THEN d
         ELSE IF d.zeros = 1 THEN [d EXCEPT !.zeros = 2, !.phase = "done"]
         ELSE [d EXCEPT !.zeros = 1]
    ELSE IF (l.op = "is_running" /\ l.ret = 0) \/ (l.op = "get_exit_code" /\ l.ret # RUNNING)
         THEN [d EXCEPT !.sawExit = TRUE]
         ELSE d

DrainReturn ==
    /\ drv.phase = "loop"
    /\ Finish(Caller)
    /\ drv' = DrainAfter(drv, th[Caller])
    /\ UNCHANGED mutex

NextDrain ==
    \/ DrainStart
    \/ StartScan(Caller)
    \/ StartSpawnFail(Caller)
    \/ StartSpawn(Caller)
    \/ StartRegister(Caller)
    \/ DrainStarted
    \/ \E n \in DrainBufLens : DrainRead(n)
    \/ \E op \in {"is_running", "get_exit_code"} : DrainObserve(op)
    \/ ReadSnap(Caller)
    \/ ReadSys(Caller)
    \/ ReadEof(Caller)
    \/ DrainReturn
    \/ \E op \in {"is_running", "get_exit_code"}, h \in Handles : CallObs(Reaper, op, h)
    \/ \E t \in Threads : ReapCheck(t)
    \/ \E t \in Threads : ReapWait(t)
    \/ \E t \in Threads : ReapCommit(t)
    \/ \E t \in Threads : Obs(t)
    \/ Return(Reaper)
    \/ \E p \in Pids : ChildWrite(p, drv.stream, DrainBytes)
    \/ \E p \in Pids, c \in ExitStatuses : ChildExit(p, c)

SpecDrain == InitDrain /\ [][NextDrain]_vars

(* SpecStopTwice: the caller makes any calls, then picks a handle that start   *)
(* has returned and calls stop_process, get_exit_code, stop_process,          *)
(* get_exit_code on it, one after the other.                                   *)
InitStopTwice == InitSystem /\ drv = [DrvOff EXCEPT !.phase = "free"]

TwiceStop1(h) ==
    /\ drv.phase = "free"
    /\ procs[h].pid # 0
    /\ Invoke(Caller, StopEntry(h))
    /\ drv' = [drv EXCEPT !.phase = "stop1", !.handle = h]
    /\ UNCHANGED mutex

TwiceCall ==
    /\ drv.phase \in {"s1", "g1", "s2"}
    /\ Invoke(Caller, IF drv.phase = "g1" THEN StopEntry(drv.handle)
                      ELSE ObsEntry("get_exit_code", drv.handle))
    /\ drv' = [drv EXCEPT !.phase = IF drv.phase = "s1" THEN "get1"
                                    ELSE IF drv.phase = "g1" THEN "stop2" ELSE "get2"]
    /\ UNCHANGED mutex

TwiceReturn ==
    /\ drv.phase \in {"stop1", "get1", "stop2", "get2"}
    /\ Finish(Caller)
    /\ drv' = IF drv.phase = "stop1" THEN [drv EXCEPT !.phase = "s1", !.a = th[Caller].ret]
              ELSE IF drv.phase = "get1" THEN [drv EXCEPT !.phase = "g1", !.e1 = th[Caller].ret]
              ELSE IF drv.phase = "stop2" THEN [drv EXCEPT !.phase = "s2", !.b = th[Caller].ret]
              ELSE [drv EXCEPT !.phase = "checked", !.e2 = th[Caller].ret]
    /\ UNCHANGED mutex

NextStopTwice ==
    \/ drv.phase = "free" /\ \E nullArgs \in BOOLEAN : CallStart(Caller, nullArgs)
    \/ StartScan(Caller)
    \/ StartSpawnFail(Caller)
    \/ StartSpawn(Caller)
    \/ StartRegister(Caller)
    \/ drv.phase = "free" /\ \E op \in Readers, h \in Handles : CallRead(Caller, op, h, 1)
    \/ ReadSnap(Caller)
    \/ ReadSys(Caller)
    \/ ReadSysHost(Caller)
    \/ ReadEof(Caller)
    \/ drv.phase = "free" /\ \E op \in Observers, h \in Handles : CallObs(Caller, op, h)
    \/ ReapCheck(Caller)
    \/ ReapWait(Caller)
    \/ ReapCommit(Caller)
    \/ Obs(Caller)
    \/ drv.phase = "free" /\ \E h \in Handles : CallStop(Caller, h)
    \/ \E h \in Handles : TwiceStop1(h)
    \/ TwiceCall
    \/ TwiceReturn
    \/ StopCheck(Caller)
    \/ StopTermGone(Caller)
    \/ \E dies \in BOOLEAN : StopTerm(Caller, dies)
    \/ StopPoll(Caller)
    \/ StopAlive(Caller)
    \/ StopKillWait(Caller)
    \/ \E p \in Pids, c \in ExitStatuses : ChildExit(p, c)
    \/ \E p \in Pids, sig \in Signals : ChildKilled(p, sig)
    \/ drv.phase = "free" /\ Return(Caller)

SpecStopTwice == InitStopTwice /\ [][NextStopTwice]_vars

(* ======================= properties of the registry ==================== *)
Live(h) == procs[h].used /\ procs[h].pid \in Pids /\ child[procs[h].pid].life = "run"
Drained(h) == procs[h].stdout_fd < 0 /\ procs[h].stderr_fd < 0
Quiescent == \A t \in Threads : th[t].pc = "idle"

\* C2: when stop_process returns on a child that was running when the call
\* signalled it, the slot's exit_code is the child's real termination: c if it
\* exited with status c, 137 if it was killed by SIGKILL.
StopReportsTermination ==
    \A t \in Threads :
        (th[t].pc = "ret" /\ th[t].op = "stop" /\ th[t].live)
        => /\ WIFEXITED(th[t].term)
                => procs[th[t].handle].exit_code = WEXITSTATUS(th[t].term)
           /\ th[t].term = Signaled(SIGKILL)
                => procs[th[t].handle].exit_code = 137

\* C3: a scan of start_process that finds every slot holding a live child gives
\* -1, and a scan made when some slot's child has been stopped by stop_process
\* and both of its streams have been read to EOF finds a slot.
CapacityRecovers ==
    [][\A t \in Threads :
          (th[t].pc = "scan" /\ th'[t].pc # "scan")
          => /\ (\A h \in Handles : Live(h))
                    => (th'[t].pc = "ret" /\ th'[t].ret = -1)
             /\ (\E h \in Handles : procs[h].pid \in stopped /\ Drained(h))
                    => th'[t].pc = "spawn"]_vars

\* C4: whenever no call is in progress, a slot whose two descriptors are closed
\* and whose exit_code is not -2 is free.
DrainedSlotIsFree ==
    Quiescent
    => \A h \in Handles :
          (Drained(h) /\ procs[h].exit_code # RUNNING) => ~procs[h].used

\* C5: a step that turns used from true to false leaves the slot with both
\* descriptors closed and an exit_code other than -2.
ReclaimOnlyWhenDrained ==
    [][\A h \in Handles :
          (procs[h].used /\ ~procs'[h].used)
          => (procs'[h].stdout_fd < 0 /\ procs'[h].stderr_fd < 0
              /\ procs'[h].exit_code # RUNNING)]_vars

\* a slot that held a child has been reclaimed
SlotReclaimed == \E h \in Handles : ~procs[h].used /\ procs[h].pid # 0

ReaperEncoding ==
    /\ [][\A t \in Threads :
            (th[t].pc = "reap_commit" /\ th'[t].pc # "reap_commit"
             /\ procs[th[t].handle].used /\ procs[th[t].handle].exit_code = RUNNING)
            => LET now == procs'[th[t].handle].exit_code
                   st == th[t].status
               IN /\ (th[t].r = th[t].pid /\ st.kind = "exit") => (now = st.val /\ now \in 0 .. 255)
                  /\ (th[t].r = th[t].pid /\ st.kind = "sig") => now = 128 + st.val
                  /\ (th[t].r = th[t].pid /\ st = Signaled(9)) => now = 137
                  /\ th[t].r = -1 => now = -1
                  /\ th[t].r = 0 => now = -2]_vars
    /\ [](\A t \in Threads :
            (th[t].pc = "ret" /\ th[t].op = "get_exit_code" /\ th[t].handle \in Handles)
            => th[t].ret = procs[th[t].handle].exit_code)

\* get_exit_code has returned 137 for a child killed by signal 9
GetExitCodeSignaled ==
    \E t \in Threads :
        /\ th[t].pc = "ret" /\ th[t].op = "get_exit_code" /\ th[t].ret = 137
        /\ th[t].handle \in Handles /\ procs[th[t].handle].used

\* C9: a slot that is not used records no open descriptor and an exit_code other
\* than -2.
FreeSlotClean ==
    \A h \in Handles :
        ~procs[h].used
        => (procs[h].stdout_fd = CLOSED_FD /\ procs[h].stderr_fd = CLOSED_FD
            /\ procs[h].exit_code # RUNNING)

\* C10: the scan picks the lowest free index and fails exactly when no slot is
\* free; a successful start_process returns that index, which is in
\* 0..MAX_PROCS-1, and leaves the slot used, both descriptors open, exit_code -2.
StartAllocatesLowest ==
    [][\A t \in Threads :
          /\ (th[t].pc = "scan" /\ th'[t].pc = "spawn")
                => /\ th'[t].idx \in Handles
                   /\ ~procs[th'[t].idx].used
                   /\ \A j \in Handles : j < th'[t].idx => procs[j].used
          /\ (th[t].pc = "scan" /\ th'[t].pc = "ret")
                => (th'[t].ret = -1 /\ \A h \in Handles : procs[h].used)
          /\ (th[t].pc = "register" /\ th'[t].pc = "ret")
                => LET h == th'[t].ret
                   IN /\ h >= 0 /\ h < MAX_PROCS
                      /\ ~procs[h].used /\ \A j \in Handles : j < h => procs[j].used
                      /\ procs'[h].used
                      /\ procs'[h].stdout_fd >= 0 /\ procs'[h].stderr_fd >= 0
                      /\ procs'[h].exit_code = -2]_vars

\* start_process has returned the second slot while the first is in use
StartReturnedSecondSlot ==
    \E t \in Threads :
        /\ th[t].pc = "ret" /\ th[t].op = "start" /\ th[t].ret = 1
        /\ procs[0].used /\ procs[1].used /\ procs[1].exit_code = RUNNING

(* ========================= properties of the scenarios ================= *)
\* C1: when the consumer stops (it has seen a non-running state and then two
\* consecutive reads returning 0), it has received exactly the bytes the child
\* wrote to the stream, in the order written.
NoByteLoss ==
    drv.phase = "done" => drv.received = [i \in 1 .. nwritten |-> i]

\* the consumer has stopped after receiving two bytes
DrainedTwoBytes == drv.phase = "done" /\ Len(drv.received) = 2

\* C8: both stop_process calls returned 0, and get_exit_code returned the same
\* value, other than -2, after the second as after the first.
StopTwiceSame ==
    drv.phase = "checked"
    => (drv.a = 0 /\ drv.b = 0 /\ drv.e1 = drv.e2 /\ drv.e1 # -2)

\* the four calls have been made on a slot whose child was running when the
\* first stop_process signalled it
StoppedTwice ==
    /\ drv.phase = "checked"
    /\ procs[drv.handle].used /\ procs[drv.handle].pid \in stopped

(* ===================== handles, arguments and signals ================== *)
\* C11: get_exit_code returns -1 for a handle that is out of range or whose slot
\* is not in use (never allocated, or reclaimed); it returns -2 or a value >= 0
\* only for a handle whose slot is in use.
GetExitCodeInvalidHandle ==
    \A t \in Threads :
        (th[t].pc = "ret" /\ th[t].op = "get_exit_code")
        => /\ (th[t].handle \notin Handles \/ ~procs[th[t].handle].used)
                => th[t].ret = -1
           /\ (th[t].ret >= 0 \/ th[t].ret = -2)
                => (th[t].handle \in Handles /\ procs[th[t].handle].used)

\* the values the five calls give for a handle out of range or a length <= 0
RejectedAtEntry(h, n) ==
    /\ \A op \in Readers :
          (h \notin Handles \/ n <= 0)
          => (ReadEntry(op, h, n).pc = "ret" /\ ReadEntry(op, h, n).ret = -1)
    /\ h \notin Handles
          => /\ StopEntry(h).pc = "ret" /\ StopEntry(h).ret = -1
             /\ ObsEntry("get_exit_code", h).pc = "ret"
             /\ ObsEntry("get_exit_code", h).ret = -1
             /\ ObsEntry("is_running", h).pc = "ret"
             /\ ObsEntry("is_running", h).ret = 0

\* C12: for a handle out of range the readers and stop_process return -1,
\* get_exit_code returns -1 and is_running returns 0, and for a length <= 0 the
\* readers return -1; such a call returns from its entry, and neither the entry
\* nor the return changes a slot, a child, a pipe or a descriptor.
InvalidArgsRejected ==
    /\ [](\A h \in HandleInputs, n \in BufLens : RejectedAtEntry(h, n))
    /\ [][\A t \in Threads :
            (th[t].pc = "idle" /\ th'[t].pc # "idle")
            => /\ (th'[t].op # "start" /\ th'[t].handle \notin Handles)
                    => /\ th'[t].pc = "ret"
                       /\ th'[t].ret = IF th'[t].op = "is_running" THEN 0 ELSE -1
               /\ th'[t].pc = "ret"
                    => UNCHANGED <<procs, child, pipebuf, nwritten, fdtab, nextpid>>]_vars
    /\ [][\A t \in Threads :
            (th[t].pc = "ret" /\ th'[t] # th[t])
            => /\ th'[t].pc = "idle"
               /\ UNCHANGED <<procs, child, pipebuf, nwritten, fdtab, nextpid>>]_vars

\* stop_process has returned -1 for the handle MAX_PROCS while a child is running
StopRejectedOutOfRange ==
    /\ \E t \in Threads :
          th[t].pc = "ret" /\ th[t].op = "stop" /\ th[t].handle = MAX_PROCS /\ th[t].ret = -1
    /\ \E h \in Handles : Live(h)

\* the positions at which a call issues kill or waitpid for the pid it has read
SignalOrWaitPcs == {"stop_term", "stop_poll", "stop_alive", "stop_kwait", "reap_wait"}

\* C19: a step of stop_process, is_running or get_exit_code that issues kill or
\* waitpid for the slot's pid is taken only while the slot's exit_code is -2.
NoSignalAfterRecorded ==
    [][\A t \in Threads :
          (th[t].pc \in SignalOrWaitPcs /\ th'[t] # th[t])
          => procs[th[t].handle].exit_code = RUNNING]_vars

(* ============================ frames and races ========================= *)
\* C13: a step of is_running, get_exit_code or stop_process leaves used, pid,
\* stdout_fd and stderr_fd of every slot, every other slot as a whole, and the
\* descriptor table unchanged; a step that clears used or closes a pipe's read
\* end is the EOF step of a reader.
ReapAndStopFrame ==
    /\ [][\A t \in Threads :
            (th[t].op \in {"is_running", "get_exit_code", "stop"} /\ th'[t] # th[t])
            => /\ \A h \in Handles :
                    /\ procs'[h].used = procs[h].used
                    /\ procs'[h].pid = procs[h].pid
                    /\ procs'[h].stdout_fd = procs[h].stdout_fd
                    /\ procs'[h].stderr_fd = procs[h].stderr_fd
                    /\ h # th[t].handle => procs'[h] = procs[h]
               /\ fdtab' = fdtab]_vars
    /\ [][((\E h \in Handles : procs[h].used /\ ~procs'[h].used)
            \/ (\E f \in Fds : fdtab[f].k = "pipe" /\ fdtab'[f].k = "closed"))
          => \E t \in Threads : /\ th[t].pc = "eof" /\ th[t].op \in Readers
                                /\ th'[t].pc = "ret"]_vars

\* stop_process has returned on a child it signalled while running: the slot's
\* exit_code is set, and the slot is still used with both descriptors recorded
StopChangedOnlyExitCode ==
    \E t \in Threads :
        /\ th[t].pc = "ret" /\ th[t].op = "stop" /\ th[t].live
        /\ procs[th[t].handle].used /\ procs[th[t].handle].pid = th[t].sig
        /\ procs[th[t].handle].exit_code # RUNNING
        /\ procs[th[t].handle].stdout_fd >= 0 /\ procs[th[t].handle].stderr_fd >= 0

\* C14: the EOF step of a reader closes the descriptor the slot records only if
\* one is recorded; that descriptor is open then, is closed by the step and is
\* marked closed in the slot, and no other descriptor is touched; a reader that
\* finds the slot's descriptor already marked closed closes nothing.  As long as
\* no second child has been started, the descriptor closed is the one the reader
\* read EOF on, and a reader whose descriptor another reader has closed closes
\* nothing and changes no slot.
EndpointClosedOnce ==
    [][\A t \in Threads :
          (th[t].pc = "eof" /\ th'[t] # th[t])
          => LET h == th[t].handle
                 s == StreamOf(th[t].op)
                 fd == FdOf(procs[h], s)
             IN /\ IF fd >= 0
                   THEN /\ fdtab[fd].k = "pipe"
                        /\ fdtab'[fd].k = "closed"
                        /\ FdOf(procs'[h], s) = CLOSED_FD
                        /\ \A f \in Fds : f # fd => fdtab'[f] = fdtab[f]
                   ELSE fdtab' = fdtab /\ procs' = procs
                /\ (nextpid = 2 /\ fdtab[th[t].fd].k = "pipe")
                      => (fd = th[t].fd /\ fdtab'[th[t].fd].k = "closed")
                /\ (nextpid = 2 /\ fdtab[th[t].fd].k = "closed")
                      => (fdtab' = fdtab /\ procs' = procs)]_vars

\* two readers of the only child have read EOF on the same descriptor; one has
\* closed it and the other is about to find it marked closed
SecondReaderFindsClosed ==
    \E t \in Threads :
        /\ th[t].pc = "eof" /\ nextpid = 2
        /\ FdOf(procs[th[t].handle], StreamOf(th[t].op)) < 0
        /\ fdtab[th[t].fd].k = "closed"

\* C17: the registration step of start_process writes a slot that is not in use
\* (so that two calls never hold the same slot and none overwrites the pid, the
\* descriptors or the exit_code of a slot in use).
StartsClaimDistinctSlots ==
    [][\A t \in Threads :
          (th[t].pc = "register" /\ th'[t].pc = "ret")
          => ~procs[th[t].idx].used]_vars

\* C18: when the wait of an is_running or get_exit_code call has collected the
\* slot's child, no other call has recorded an exit state for that child: the
\* collector's commit is the one that records it.
CollectorRecords ==
    \A t \in Threads :
        (/\ th[t].pc = "reap_commit" /\ th[t].op \in Observers
         /\ th[t].r = th[t].pid
         /\ procs[th[t].handle].used /\ procs[th[t].handle].pid = th[t].pid)
        => procs[th[t].handle].exit_code = RUNNING

\* C20: the EOF step of a reader closes the descriptor on which the reader
\* itself read EOF (the one it took from the slot before reading).
ReaderClosesOwnEndpoint ==
    [][\A t \in Threads :
          (th[t].pc = "eof" /\ th'[t] # th[t]
           /\ FdOf(procs[th[t].handle], StreamOf(th[t].op)) >= 0)
          => FdOf(procs[th[t].handle], StreamOf(th[t].op)) = th[t].fd]_vars

(* ============================ stop_process ============================= *)
\* C16: a stop_process call that has signalled a live child returns, with 0 and
\* with the child no longer running and is_running(h) = 0; its grace loop makes
\* at most GraceIters non-blocking waits and ends at the first that collects the
\* child; SIGKILL and the blocking wait follow only if the pid still exists
\* after the loop.
StopTerminates ==
    /\ \A t \in Threads :
          (th[t].op = "stop" /\ th[t].pc = "stop_poll" /\ th[t].live)
          ~> (th[t].op = "stop" /\ th[t].pc = "ret" /\ th[t].ret = 0)
    /\ [](\A t \in Threads :
            (th[t].pc = "ret" /\ th[t].op = "stop" /\ th[t].live)
            => /\ th[t].ret = 0
               /\ child[th[t].sig].life # "run"
               /\ ObsValue("is_running", procs[th[t].handle]) = 0)
    /\ [][\A t \in Threads :
            /\ (th[t].pc = "stop_poll" /\ th'[t] # th[t])
                  => /\ th[t].i < GraceIters
                     /\ WaitR(th[t].pid) = th[t].pid => th'[t].pc = "stop_alive"
                     /\ th'[t].pc = "stop_poll" => th'[t].i = th[t].i + 1
            /\ (th[t].pc = "stop_alive" /\ th'[t] # th[t])
                  => (th'[t].pc = "stop_kwait") = KillOk(th[t].pid)
            /\ (th[t].op = "stop" /\ th'[t] # th[t]
                /\ \E p \in Pids : /\ child'[p].status = Signaled(SIGKILL)
                                   /\ child[p].status # Signaled(SIGKILL))
                  => th[t].pc = "stop_alive"]_vars

\* stop_process has returned after escalating to SIGKILL on a child that did not
\* die of SIGTERM
StopEscalated ==
    \E t \in Threads :
        /\ th[t].pc = "ret" /\ th[t].op = "stop" /\ th[t].live
        /\ th[t].term = Signaled(SIGKILL)

(* ============================== the mutex ============================== *)
\* C15: a thread that takes a step in which it calls pipe, fork, read, waitpid,
\* kill or usleep does not hold procs_mutex; the reaper reads the pid and commits
\* the exit_code while holding it; and a slot is written only by the holder.
MutexNotHeldInSyscall ==
    [][/\ \A t \in Threads :
            /\ (th[t].pc \in SyscallPcs /\ th'[t] # th[t]) => mutex.owner # t
            /\ (th[t].pc \in {"reap_check", "reap_commit"} /\ th'[t] # th[t])
                  => (mutex.owner = t /\ mutex.at = th[t].pc)
       /\ procs' # procs
            => \E t \in Threads : mutex.owner = t /\ th'[t] # th[t]]_vars

\* a thread is in the waitpid of the reaper without the mutex while another
\* thread holds the mutex to commit
WaitsWhileOtherCommits ==
    \E t, u \in Threads :
        /\ t # u /\ th[t].pc = "reap_wait" /\ th[u].pc = "reap_commit"
        /\ mutex.owner = u

====
